---- MODULE Spec2Model ----
(***************************************************************************)
(* Square pickup-order viewer (src/app.py) and the notebook variant        *)
(* (src/main.py): paginated fetch, bucketing by local pickup date, the     *)
(* line-item flattener, the kitchen production table, and the Streamlit    *)
(* script run with its 2-minute data cache.                                *)
(*                                                                         *)
(* Encoding of Python values:                                              *)
(*   - an optional string is the string itself or NONE;                    *)
(*   - an optional number is <<>> (None / NaN / NaT) or <<n>>;             *)
(*   - an RFC3339 string is [kind, utc]: kind "null" (None or key absent), *)
(*     "empty" (""), "bad" (fromisoformat raises ValueError) or "ok" (a    *)
(*     parseable string denoting the instant utc, seconds since epoch);    *)
(*   - a quantity is [kind, val]: "missing" (no key), "null" (None),       *)
(*     "text" (float() raises ValueError), "int" (e.g. "3") or "dec" (a    *)
(*     decimal string such as "3.0": float() parses, int() does not);      *)
(*   - a calendar date is its day number in the local timezone.            *)
(***************************************************************************)
EXTENDS Integers, Sequences, FiniteSets, TLC

VARIABLES
    now,                \* wall clock, seconds (UTC)
    pages,              \* upstream: the chain of result pages of the search
    pc,                 \* position of the script run
    cursor,             \* fetch_recent_pickup_orders: cursor
    all_orders,         \* fetch_recent_pickup_orders: all_orders
    requests,           \* cursors sent to search_orders by the current fetch
    search_result,      \* fetch_recent_pickup_orders: the latest result, "", "ok" or "error"
    cache,              \* st.cache_data entries of load_orders_cached
    day_dates,          \* module level: day_dates
    recent_orders,      \* module level: recent_orders
    orders_by_day,      \* module level: orders_by_day
    day_options_empty,  \* module level: day_options_empty, by index of day_dates
    selected_date,      \* module level: selected_date
    selected_df,        \* module level: selected_df
    selected_prod,      \* module level: selected_prod
    error,              \* what the run reported: "", "fetch" (st.error) or "crash"
    arg,                \* pure-function harness: the argument
    called,             \* pure-function harness: the function applied ("" before)
    result              \* pure-function harness: what it returned or raised

vars == <<now, pages, pc, cursor, all_orders, requests, search_result, cache, day_dates,
          recent_orders, orders_by_day, day_options_empty, selected_date,
          selected_df, selected_prod, error, arg, called, result>>

app_vars == <<pages, pc, cursor, all_orders, requests, search_result, cache, day_dates,
              recent_orders, orders_by_day, day_options_empty, selected_date,
              selected_df, selected_prod, error>>

call_vars == <<arg, called, result>>

----------------------------------------------------------------------------
(* Program constants *)

TTL == 120
BUCKET_DAYS == 7
SELECTOR_DAYS == 14
SecondsPerDay == 24 * 3600
SecondsPerMinute == 60 * 1
UtcOffsetSeconds == 8 * 3600      \* America/Los_Angeles, standard time

(* Bounds of the model *)

TickSeconds == 60       \* granularity of the clock
MaxTicks == 3           \* the clock stops after this many ticks
MaxPages == 2           \* longest upstream page chain
MaxPageLen == 2         \* most orders on one page
MaxOrders == 2          \* longest order list given to a pure function
MaxRows == 3            \* longest row table given to kitchen_production_table

NONE == "None"
StartNow == SecondsPerDay + UtcOffsetSeconds - TTL   \* TTL seconds before local midnight

----------------------------------------------------------------------------
(* Sequence helpers *)

Range(s) == {s[i] : i \in DOMAIN s}

RECURSIVE SumSeq(_)
SumSeq(s) == IF s = <<>> THEN 0 ELSE Head(s) + SumSeq(Tail(s))

RECURSIVE Concat(_)
Concat(ss) == IF ss = <<>> THEN <<>> ELSE Head(ss) \o Concat(Tail(ss))

SeqsUpTo(S, n) == UNION {[1..k -> S] : k \in 0..n}

Injective(s) == \A i, j \in DOMAIN s : i # j => s[i] # s[j]

----------------------------------------------------------------------------
(* Time converter *)

TsNull == [kind |-> "null", utc |-> 0]
TsBad == [kind |-> "bad", utc |-> 0]
TsOk(u) == [kind |-> "ok", utc |-> u]
\* the instant that is second s of local day d
LocalInstant(d, s) == TsOk(d * SecondsPerDay + s + UtcOffsetSeconds)

local_today_at(t) == (t - UtcOffsetSeconds) \div SecondsPerDay

\* faulty variant: the date of the UTC instant, without the conversion to LOCAL_TZ
local_date_no_astimezone(ts) ==
    IF ts.kind \in {"null", "empty"} THEN [tag |-> "None", val |-> 0]
    ELSE IF ts.kind = "bad" THEN [tag |-> "ValueError", val |-> 0]
    ELSE [tag |-> "date", val |-> ts.utc \div SecondsPerDay]

local_date_from_rfc3339(ts) ==
    IF ts.kind \in {"null", "empty"} THEN [tag |-> "None", val |-> 0]
    ELSE IF ts.kind = "bad" THEN [tag |-> "ValueError", val |-> 0]
    ELSE [tag |-> "date", val |-> (ts.utc - UtcOffsetSeconds) \div SecondsPerDay]

local_dt_from_rfc3339(ts) ==
    IF ts.kind \in {"null", "empty"} THEN [tag |-> "None", val |-> 0]
    ELSE IF ts.kind = "bad" THEN [tag |-> "ValueError", val |-> 0]
    ELSE [tag |-> "datetime", val |-> ts.utc - UtcOffsetSeconds]

\* strftime("%Y-%m-%d %H:%M"): the local minute, seconds dropped
strftime_minute(local_seconds) == local_seconds \div SecondsPerMinute

----------------------------------------------------------------------------
(* Day bucketer *)

TargetDays(today, days) == {today + i : i \in 0..(days - 1)}

\* faulty variant: no added_dates test, one append per pickup fulfillment
RECURSIVE scan_fulfillments_no_dedup(_, _, _, _)
scan_fulfillments_no_dedup(o, i, grouped, added_dates) ==
    IF i > Len(o.fulfillments) THEN [raised |-> FALSE, grouped |-> grouped]
    ELSE LET f == o.fulfillments[i] IN
        IF f.type # "PICKUP" THEN scan_fulfillments_no_dedup(o, i + 1, grouped, added_dates)
        ELSE LET pickup_date == local_date_from_rfc3339(f.pickup_at) IN
            IF pickup_date.tag = "ValueError"
            THEN [raised |-> TRUE, grouped |-> grouped]
            ELSE IF pickup_date.tag = "date" /\ pickup_date.val \in DOMAIN grouped
            THEN scan_fulfillments_no_dedup(o, i + 1,
                     [grouped EXCEPT ![pickup_date.val] = Append(@, o)], added_dates)
            ELSE scan_fulfillments_no_dedup(o, i + 1, grouped, added_dates)

RECURSIVE scan_fulfillments(_, _, _, _)
scan_fulfillments(o, i, grouped, added_dates) ==
    IF i > Len(o.fulfillments) THEN [raised |-> FALSE, grouped |-> grouped]
    ELSE LET f == o.fulfillments[i] IN
        IF f.type # "PICKUP" THEN scan_fulfillments(o, i + 1, grouped, added_dates)
        ELSE LET pickup_date == local_date_from_rfc3339(f.pickup_at) IN
            IF pickup_date.tag = "ValueError"
            THEN [raised |-> TRUE, grouped |-> grouped]
            ELSE IF /\ pickup_date.tag = "date"
                    /\ pickup_date.val \in DOMAIN grouped
                    /\ pickup_date.val \notin added_dates
            THEN scan_fulfillments(o, i + 1,
                     [grouped EXCEPT ![pickup_date.val] = Append(@, o)],
                     added_dates \cup {pickup_date.val})
            ELSE scan_fulfillments(o, i + 1, grouped, added_dates)

RECURSIVE scan_orders(_, _, _)
scan_orders(orders, k, grouped) ==
    IF k > Len(orders) THEN [raised |-> FALSE, grouped |-> grouped]
    ELSE LET r == scan_fulfillments(orders[k], 1, grouped, {}) IN
        IF r.raised THEN r ELSE scan_orders(orders, k + 1, r.grouped)

\* today is local_today() as read when the function runs
split_orders_by_pickup_date(orders, days, today) ==
    scan_orders(orders, 1, [d \in TargetDays(today, days) |-> <<>>])

----------------------------------------------------------------------------
(* Ordering of strings: Python compares str lexicographically; the strings  *)
(* of the model are those of Lexicon, listed in ascending order.  pandas   *)
(* sorts None / NaN / NaT last.                                             *)

Lexicon == <<"Al", "Bagel", "Coffee", "Doe", "Jane", "Large", "Small">>

StrRank(s) == IF s = NONE THEN Len(Lexicon) + 1
              ELSE CHOOSE i \in DOMAIN Lexicon : Lexicon[i] = s

\* a name is a sequence of words (joined by spaces); <<>> is None or ""
RECURSIVE NameCmp(_, _)
NameCmp(a, b) ==
    IF a = <<>> /\ b = <<>> THEN 0
    ELSE IF a = <<>> THEN 0 - 1
    ELSE IF b = <<>> THEN 1
    ELSE IF StrRank(Head(a)) < StrRank(Head(b)) THEN 0 - 1
    ELSE IF StrRank(Head(a)) > StrRank(Head(b)) THEN 1
    ELSE NameCmp(Tail(a), Tail(b))

\* three-way comparisons with the absent value last
OptNumCmp(a, b) ==
    IF a = b THEN 0
    ELSE IF a = <<>> THEN 1
    ELSE IF b = <<>> THEN 0 - 1
    ELSE IF a[1] < b[1] THEN 0 - 1 ELSE 1

OptNameCmp(a, b) ==
    IF a = b THEN 0
    ELSE IF a = <<>> THEN 1
    ELSE IF b = <<>> THEN 0 - 1
    ELSE NameCmp(a, b)

OptStrCmp(a, b) ==
    IF a = b THEN 0 ELSE IF StrRank(a) < StrRank(b) THEN 0 - 1 ELSE 1

----------------------------------------------------------------------------
(* Line-item flattener (src/app.py) *)

NoRecipient == [display_name |-> <<>>, given_name |-> <<>>, family_name |-> <<>>,
                email_address |-> NONE, phone_number |-> NONE]

\* display_name, else the given and family names that are present joined by a
\* space, else None
resolve_recipient_name(recipient) ==
    IF recipient.display_name # <<>> THEN recipient.display_name
    ELSE recipient.given_name \o recipient.family_name

\* qty_str = li.get("quantity", "0"); float(qty_str), ValueError -> None
parse_quantity(li) ==
    LET q == li.quantity IN
    CASE q.kind = "missing" -> [tag |-> "ok", qty |-> <<0>>]
      [] q.kind = "null" -> [tag |-> "TypeError", qty |-> <<>>]
      [] q.kind \in {"text", "empty"} -> [tag |-> "ok", qty |-> <<>>]
      [] OTHER -> [tag |-> "ok", qty |-> <<q.val>>]

RECURSIVE lineitem_rows(_, _, _, _, _)
lineitem_rows(fulfillment_time, recipient, line_items, j, rows) ==
    IF j > Len(line_items) THEN [status |-> "ok", rows |-> rows]
    ELSE LET li == line_items[j]
             p == parse_quantity(li)
         IN  IF p.tag # "ok" THEN [status |-> p.tag, rows |-> rows]
             ELSE lineitem_rows(fulfillment_time, recipient, line_items, j + 1,
                      Append(rows,
                          [fulfillment_time |-> fulfillment_time,
                           recipient_name |-> resolve_recipient_name(recipient),
                           recipient_email |-> recipient.email_address,
                           recipient_phone |-> recipient.phone_number,
                           item_name |-> li.name,
                           variation_name |-> li.variation_name,
                           item_quantity |-> p.qty]))

RECURSIVE fulfillment_rows(_, _, _)
fulfillment_rows(o, i, rows) ==
    IF i > Len(o.fulfillments) THEN [status |-> "ok", rows |-> rows]
    ELSE LET f == o.fulfillments[i] IN
        IF f.type # "PICKUP" THEN fulfillment_rows(o, i + 1, rows)
        ELSE LET pickup_dt_local == local_dt_from_rfc3339(f.pickup_at) IN
            IF pickup_dt_local.tag = "ValueError"
            THEN [status |-> "ValueError", rows |-> rows]
            ELSE LET fulfillment_time ==
                         IF pickup_dt_local.tag = "datetime"
                         THEN <<strftime_minute(pickup_dt_local.val)>> ELSE <<>>
                     r == lineitem_rows(fulfillment_time, f.recipient, o.line_items, 1, rows)
                 IN  IF r.status # "ok" THEN r ELSE fulfillment_rows(o, i + 1, r.rows)

RECURSIVE order_rows(_, _, _)
order_rows(orders, k, rows) ==
    IF k > Len(orders) THEN [status |-> "ok", rows |-> rows]
    ELSE LET r == fulfillment_rows(orders[k], 1, rows) IN
        IF r.status # "ok" THEN r ELSE order_rows(orders, k + 1, r.rows)

\* the sort key of df.sort_values([...]) as a three-way comparison
RowCmp(a, b) ==
    LET c1 == OptNumCmp(a.fulfillment_time, b.fulfillment_time)
        c2 == OptNameCmp(a.recipient_name, b.recipient_name)
        c3 == OptStrCmp(a.item_name, b.item_name)
        c4 == OptStrCmp(a.variation_name, b.variation_name)
    IN  IF c1 # 0 THEN c1 ELSE IF c2 # 0 THEN c2 ELSE IF c3 # 0 THEN c3 ELSE c4

\* stable insertion of x into the sorted sequence s, after its equals
RECURSIVE insert_sorted(_, _)
insert_sorted(s, x) ==
    IF s = <<>> THEN <<x>>
    ELSE IF RowCmp(x, Head(s)) < 0 THEN <<x>> \o s
    ELSE <<Head(s)>> \o insert_sorted(Tail(s), x)

RECURSIVE sort_values(_)
sort_values(rows) ==
    IF rows = <<>> THEN <<>>
    ELSE insert_sorted(sort_values(SubSeq(rows, 1, Len(rows) - 1)), rows[Len(rows)])

orders_to_lineitem_df(orders) ==
    LET r == order_rows(orders, 1, <<>>) IN
    IF r.status # "ok" THEN [status |-> r.status, rows |-> <<>>]
    ELSE [status |-> "ok", rows |-> sort_values(r.rows)]

----------------------------------------------------------------------------
(* Line-item flattener of the notebook variant (src/main.py) *)

\* qty_str = li.get("quantity") or "0"; int(qty_str), ValueError -> float(qty_str)
parse_quantity_main(li) ==
    LET q == li.quantity IN
    CASE q.kind \in {"missing", "null", "empty"} -> [tag |-> "ok", qty |-> <<0>>]
      [] q.kind = "text" -> [tag |-> "ValueError", qty |-> <<>>]
      [] OTHER -> [tag |-> "ok", qty |-> <<q.val>>]

RECURSIVE lineitem_rows_main(_, _, _, _, _)
lineitem_rows_main(dt_local, recipient, line_items, j, rows) ==
    IF j > Len(line_items) THEN [status |-> "ok", rows |-> rows]
    ELSE LET li == line_items[j]
             p == parse_quantity_main(li)
         IN  IF p.tag # "ok" THEN [status |-> p.tag, rows |-> rows]
             ELSE lineitem_rows_main(dt_local, recipient, line_items, j + 1,
                      Append(rows,
                          [fulfillment_date |-> dt_local,
                           recipient_name |-> resolve_recipient_name(recipient),
                           recipient_email |-> recipient.email_address,
                           recipient_phone |-> recipient.phone_number,
                           item_name |-> li.name,
                           item_quantity |-> p.qty]))

RECURSIVE fulfillment_rows_main(_, _, _)
fulfillment_rows_main(order, i, rows) ==
    IF i > Len(order.fulfillments) THEN [status |-> "ok", rows |-> rows]
    ELSE LET f == order.fulfillments[i] IN
        IF f.pickup_at.kind \in {"null", "empty"}
        THEN fulfillment_rows_main(order, i + 1, rows)
        ELSE IF f.pickup_at.kind = "bad" THEN [status |-> "ValueError", rows |-> rows]
        ELSE LET dt_local == f.pickup_at.utc - UtcOffsetSeconds
                 r == lineitem_rows_main(dt_local, f.recipient, order.line_items, 1, rows)
             IN  IF r.status # "ok" THEN r ELSE fulfillment_rows_main(order, i + 1, r.rows)

RECURSIVE order_rows_main(_, _, _)
order_rows_main(orders, k, rows) ==
    IF k > Len(orders) THEN [status |-> "ok", rows |-> rows]
    ELSE LET r == fulfillment_rows_main(orders[k], 1, rows) IN
        IF r.status # "ok" THEN r ELSE order_rows_main(orders, k + 1, r.rows)

build_dataframe_from_orders(orders) ==
    LET r == order_rows_main(orders, 1, <<>>) IN
    IF r.status # "ok" THEN [status |-> r.status, rows |-> <<>>] ELSE r

----------------------------------------------------------------------------
(* Production aggregator *)

\* faulty variant: grouping by item name alone
GroupKey_item_only(row) == <<row.item_name, NONE>>

GroupKey(row) == <<row.item_name, row.variation_name>>

KeyCmp(a, b) ==
    LET c1 == OptStrCmp(a[1], b[1]) IN
    IF c1 # 0 THEN c1 ELSE OptStrCmp(a[2], b[2])

\* .sum() skips NaN; a group of only NaN sums to 0
group_sum(df, key) ==
    SumSeq([i \in DOMAIN df |->
               IF GroupKey(df[i]) = key /\ df[i].item_quantity # <<>>
               THEN df[i].item_quantity[1] ELSE 0])

RECURSIVE sorted_keys(_)
sorted_keys(keys) ==
    IF keys = {} THEN <<>>
    ELSE LET least == CHOOSE k \in keys : \A other \in keys : KeyCmp(k, other) <= 0
         IN  <<least>> \o sorted_keys(keys \ {least})

kitchen_production_table(df) ==
    IF df = <<>> THEN <<>>
    ELSE LET keys == sorted_keys({GroupKey(df[i]) : i \in DOMAIN df}) IN
         [n \in DOMAIN keys |->
             [item_name |-> keys[n][1],
              variation_name |-> keys[n][2],
              item_quantity |-> group_sum(df, keys[n])]]

----------------------------------------------------------------------------
(* Orders *)

D0 == local_today_at(StartNow)      \* the local date on which the clock starts

Pickup(ts, recipient) == [type |-> "PICKUP", pickup_at |-> ts, recipient |-> recipient]
Shipment(ts) == [type |-> "SHIPMENT", pickup_at |-> ts, recipient |-> NoRecipient]

JaneDoe == [NoRecipient EXCEPT !.given_name = <<"Jane">>, !.family_name = <<"Doe">>]
Al == [NoRecipient EXCEPT !.display_name = <<"Al">>]

QtyInt(n) == [kind |-> "int", val |-> n]
QtyDec(n) == [kind |-> "dec", val |-> n]
QtyText == [kind |-> "text", val |-> 0]
QtyNull == [kind |-> "null", val |-> 0]
QtyMissing == [kind |-> "missing", val |-> 0]

LineItem(name, variation_name, quantity) ==
    [name |-> name, variation_name |-> variation_name, quantity |-> quantity]

Order(id, state, fulfillments, line_items) ==
    [id |-> id, state |-> state, fulfillments |-> fulfillments, line_items |-> line_items]

\* order lists: the k-th order of a list has id k
OrderLists(shapes, n) ==
    {[k \in DOMAIN s |-> Order(k, "OPEN", s[k].fulfillments, s[k].line_items)] :
        s \in SeqsUpTo(shapes, n)}

UpToTwo(S) == {<<>>} \cup {<<x>> : x \in S} \cup {<<x, y>> : x \in S, y \in S}

----------------------------------------------------------------------------
(* Harness for the pure functions: Init draws the argument, one action      *)
(* applies the function.                                                    *)

AppIdle ==
    /\ pages = <<>>
    /\ pc = "idle"
    /\ cursor = <<>>
    /\ all_orders = <<>>
    /\ requests = <<>>
    /\ search_result = ""
    /\ cache = <<>>
    /\ day_dates = <<>>
    /\ recent_orders = <<>>
    /\ orders_by_day = <<>>
    /\ day_options_empty = <<>>
    /\ selected_date = <<>>
    /\ selected_df = <<>>
    /\ selected_prod = <<>>
    /\ error = ""

NoCall == /\ arg = <<>>
          /\ called = ""
          /\ result = <<>>

SplitFulfillments ==
    {Pickup(LocalInstant(D0, SecondsPerDay - 1), NoRecipient),
     Pickup(LocalInstant(D0 + 1, 0), NoRecipient),
     Pickup(LocalInstant(D0 + BUCKET_DAYS, 0), NoRecipient),
     Pickup(TsBad, NoRecipient),
     Pickup(TsNull, NoRecipient),
     Shipment(LocalInstant(D0 + 1, 0))}

SplitShapes == {[fulfillments |-> fs, line_items |-> <<>>] : fs \in UpToTwo(SplitFulfillments)}

InitSplit ==
    /\ now \in {StartNow, StartNow + TTL}
    /\ arg \in OrderLists(SplitShapes, MaxOrders)
    /\ called = ""
    /\ result = <<>>
    /\ AppIdle

Call_split_orders_by_pickup_date ==
    /\ called = ""
    /\ called' = "split_orders_by_pickup_date"
    /\ result' = split_orders_by_pickup_date(arg, BUCKET_DAYS, local_today_at(now))
    /\ UNCHANGED <<now, arg, app_vars>>

NextSplit == Call_split_orders_by_pickup_date

SpecSplit == InitSplit /\ [][NextSplit]_vars

FlattenFulfillments ==
    {<<>>,
     <<Pickup(LocalInstant(D0 + 1, 0), JaneDoe)>>,
     <<Shipment(LocalInstant(D0 + 1, 0))>>,
     <<Pickup(TsNull, Al)>>,
     <<Pickup(LocalInstant(D0 + 1, SecondsPerMinute), Al), Pickup(LocalInstant(D0, 0), JaneDoe)>>,
     <<Pickup(TsBad, Al)>>}

FlattenLineItems ==
    {LineItem("Bagel", NONE, QtyInt(3)),
     LineItem("Bagel", "Small", QtyInt(0)),
     LineItem("Coffee", "Large", QtyText),
     LineItem("Coffee", NONE, QtyMissing),
     LineItem("Bagel", "Large", QtyNull),
     LineItem("Coffee", "Small", QtyDec(2))}

FlattenShapes ==
    {[fulfillments |-> fs, line_items |-> ls] :
        fs \in FlattenFulfillments, ls \in UpToTwo(FlattenLineItems)}

InitFlatten ==
    /\ now = StartNow
    /\ arg \in OrderLists(FlattenShapes, MaxOrders)
    /\ called = ""
    /\ result = <<>>
    /\ AppIdle

Call_orders_to_lineitem_df ==
    /\ called = ""
    /\ called' = "orders_to_lineitem_df"
    /\ result' = orders_to_lineitem_df(arg)
    /\ UNCHANGED <<now, arg, app_vars>>

Call_build_dataframe_from_orders ==
    /\ called = ""
    /\ called' = "build_dataframe_from_orders"
    /\ result' = build_dataframe_from_orders(arg)
    /\ UNCHANGED <<now, arg, app_vars>>

NextFlatten == Call_orders_to_lineitem_df \/ Call_build_dataframe_from_orders

SpecFlatten == InitFlatten /\ [][NextFlatten]_vars

KitchenRow(item_name, variation_name, item_quantity) ==
    [fulfillment_time |-> <<>>, recipient_name |-> <<>>, recipient_email |-> NONE,
     recipient_phone |-> NONE, item_name |-> item_name,
     variation_name |-> variation_name, item_quantity |-> item_quantity]

KitchenRows ==
    {KitchenRow(i, v, q) : i \in {"Bagel", "Coffee"}, v \in {NONE, "Large", "Small"},
                           q \in {<<>>, <<1>>, <<2>>, <<3>>}}

InitKitchen ==
    /\ now = StartNow
    /\ arg \in SeqsUpTo(KitchenRows, MaxRows)
    /\ called = ""
    /\ result = <<>>
    /\ AppIdle

Call_kitchen_production_table ==
    /\ called = ""
    /\ called' = "kitchen_production_table"
    /\ result' = kitchen_production_table(arg)
    /\ UNCHANGED <<now, arg, app_vars>>

NextKitchen == Call_kitchen_production_table

SpecKitchen == InitKitchen /\ [][NextKitchen]_vars

----------------------------------------------------------------------------
(* Properties of split_orders_by_pickup_date (SpecSplit) *)

SplitReturned == called = "split_orders_by_pickup_date" /\ ~result.raised

\* ts is a valid timestamp whose instant lies within local day d
LocalDateIs(ts, d) ==
    /\ ts.kind = "ok"
    /\ d * SecondsPerDay + UtcOffsetSeconds <= ts.utc
    /\ ts.utc < (d + 1) * SecondsPerDay + UtcOffsetSeconds

PickupsOn(o, d) ==
    {i \in DOMAIN o.fulfillments :
        o.fulfillments[i].type = "PICKUP" /\ LocalDateIs(o.fulfillments[i].pickup_at, d)}

Occurrences(bucket, o) == Cardinality({i \in DOMAIN bucket : bucket[i] = o})

IsWellFormed(f) == ~(f.type = "PICKUP" /\ f.pickup_at.kind = "bad")

\* C3: a malformed pickup_at does not abort the bucketing: the call returns,
\* the malformed fulfillment contributes to no bucket, and every other
\* fulfillment is bucketed as if the malformed one were absent.
C3_MalformedPickupIsSkipped ==
    called = "split_orders_by_pickup_date" =>
        /\ ~result.raised
        /\ \A d \in DOMAIN result.grouped : \A k \in DOMAIN arg :
               Occurrences(result.grouped[d], arg[k]) =
                   (IF PickupsOn(arg[k], d) # {} THEN 1 ELSE 0)

\* C5: in the returned buckets each order of the input occurs at most once per
\* target date, and exactly once in the bucket of every target date that one
\* or more of its pickup fulfillments resolve to.
C5_DedupPerDate ==
    SplitReturned =>
        \A d \in DOMAIN result.grouped : \A k \in DOMAIN arg :
            /\ Occurrences(result.grouped[d], arg[k]) <= 1
            /\ PickupsOn(arg[k], d) # {} => Occurrences(result.grouped[d], arg[k]) = 1

\* an order with two pickup fulfillments on one target date and an order with
\* pickup fulfillments on two target dates have been bucketed
C5_Witness ==
    /\ SplitReturned
    /\ \E k \in DOMAIN arg : \E d \in DOMAIN result.grouped :
           Cardinality(PickupsOn(arg[k], d)) >= 2
    /\ \E k \in DOMAIN arg : \E d1, d2 \in DOMAIN result.grouped :
           d1 # d2 /\ PickupsOn(arg[k], d1) # {} /\ PickupsOn(arg[k], d2) # {}

\* C6: the returned mapping has exactly the keys today..today+days-1; an order
\* is in the bucket of d iff one of its PICKUP fulfillments has a pickup_at on
\* local date d; every bucket is a subsequence of the input list.
C6_BucketMembership ==
    SplitReturned =>
        LET today == local_today_at(now)
            grouped == result.grouped
        IN  /\ DOMAIN grouped = today..(today + BUCKET_DAYS - 1)
            /\ \A d \in DOMAIN grouped :
                  /\ \A k \in DOMAIN arg :
                         (arg[k] \in Range(grouped[d])) <=> (PickupsOn(arg[k], d) # {})
                  /\ Range(grouped[d]) \subseteq Range(arg)
                  /\ \A i, j \in DOMAIN grouped[d] :
                         i < j => grouped[d][i].id < grouped[d][j].id

\* an order picked up today sits in today's bucket beside an order that has
\* fulfillments but belongs to no bucket
C6_Witness ==
    /\ SplitReturned
    /\ LET today == local_today_at(now) IN
       /\ \E k \in DOMAIN arg :
              /\ PickupsOn(arg[k], today) # {}
              /\ arg[k] \in Range(result.grouped[today])
              /\ arg[k] \notin Range(result.grouped[today + 1])
       /\ \E k \in DOMAIN arg :
              /\ arg[k].fulfillments # <<>>
              /\ \A d \in DOMAIN result.grouped : arg[k] \notin Range(result.grouped[d])

----------------------------------------------------------------------------
(* Properties of the flatteners (SpecFlatten) *)

PickupFulfillments(o) ==
    {i \in DOMAIN o.fulfillments : o.fulfillments[i].type = "PICKUP"}

ExpectedRowCount(orders) ==
    SumSeq([k \in DOMAIN orders |->
               Cardinality(PickupFulfillments(orders[k])) * Len(orders[k].line_items)])

\* C7: the number of rows a flattener returns is the sum over the orders of
\* (PICKUP fulfillments) x (line items).
C7_RowCount ==
    (called \in {"orders_to_lineitem_df", "build_dataframe_from_orders"}
        /\ result.status = "ok")
        => Len(result.rows) = ExpectedRowCount(arg)

\* the same statement of orders_to_lineitem_df alone
RowCount_orders_to_lineitem_df ==
    (called = "orders_to_lineitem_df" /\ result.status = "ok")
        => Len(result.rows) = ExpectedRowCount(arg)

ParsesToZero(li) == li.quantity.kind \in {"int", "dec"} /\ li.quantity.val = 0
Unparseable(li) == li.quantity.kind \in {"text", "empty", "null", "missing"}

LineItemsWhere(orders, Test(_)) ==
    SumSeq([k \in DOMAIN orders |->
               Cardinality(PickupFulfillments(orders[k])) *
               Cardinality({j \in DOMAIN orders[k].line_items : Test(orders[k].line_items[j])})])

RowsWithQuantity(rows, q) == Cardinality({i \in DOMAIN rows : rows[i].item_quantity = q})

\* C8: quantity parsing never aborts the flattening, a line item whose quantity
\* is not a number (non-numeric, null or missing) yields rows with an absent
\* quantity, and only a quantity that parses to 0 yields rows with quantity 0.
C8_QuantityAbsentNeverZero ==
    called = "orders_to_lineitem_df" =>
        /\ result.status # "TypeError"
        /\ result.status = "ok" =>
              /\ RowsWithQuantity(result.rows, <<0>>) = LineItemsWhere(arg, ParsesToZero)
              /\ RowsWithQuantity(result.rows, <<>>) = LineItemsWhere(arg, Unparseable)

----------------------------------------------------------------------------
(* Properties of kitchen_production_table (SpecKitchen) *)

InputKeys(df) == {<<df[i].item_name, df[i].variation_name>> : i \in DOMAIN df}

ExpectedTotal(df, item, variation) ==
    SumSeq([i \in DOMAIN df |->
               IF /\ df[i].item_name = item
                  /\ df[i].variation_name = variation
                  /\ df[i].item_quantity # <<>>
               THEN df[i].item_quantity[1] ELSE 0])

BagelBagelCoffee ==
    <<KitchenRow("Bagel", NONE, <<3>>), KitchenRow("Bagel", NONE, <<2>>),
      KitchenRow("Coffee", NONE, <<1>>)>>

\* C9: one output row per distinct (item name, variation name) of the input,
\* an absent variation being a group of its own; each total is the sum of the
\* group's non-absent quantities; rows ascend by item name, then variation name.
C9_KitchenTable ==
    called = "kitchen_production_table" =>
        /\ {<<result[n].item_name, result[n].variation_name>> : n \in DOMAIN result}
               = InputKeys(arg)
        /\ Len(result) = Cardinality(InputKeys(arg))
        /\ \A n \in DOMAIN result :
               result[n].item_quantity =
                   ExpectedTotal(arg, result[n].item_name, result[n].variation_name)
        /\ \A m, n \in DOMAIN result : m < n =>
               \/ StrRank(result[m].item_name) < StrRank(result[n].item_name)
               \/ /\ result[m].item_name = result[n].item_name
                  /\ \/ NONE \in {result[m].variation_name, result[n].variation_name}
                     \/ StrRank(result[m].variation_name) < StrRank(result[n].variation_name)
        /\ arg = BagelBagelCoffee =>
               result = <<[item_name |-> "Bagel", variation_name |-> NONE, item_quantity |-> 5],
                          [item_name |-> "Coffee", variation_name |-> NONE, item_quantity |-> 1]>>

\* a table holding an item with and without a variation name, and an absent
\* quantity, has been aggregated
C9_Witness ==
    /\ called = "kitchen_production_table"
    /\ \E i, j, k \in DOMAIN arg :
           /\ arg[i].item_name = arg[j].item_name
           /\ arg[i].variation_name = NONE
           /\ arg[j].variation_name # NONE
           /\ arg[k].item_quantity = <<>>
    /\ Len(result) = 2

----------------------------------------------------------------------------
(* The Streamlit script run (src/app.py, module level) *)

Catalogue ==
    <<Order(1, "OPEN", <<Pickup(LocalInstant(D0 + 1, 0), JaneDoe)>>,
            <<LineItem("Bagel", NONE, QtyInt(3))>>),
      Order(2, "DRAFT", <<Pickup(LocalInstant(D0 + 1, 0), Al)>>,
            <<LineItem("Coffee", NONE, QtyInt(1))>>),
      Order(3, "COMPLETED", <<Pickup(LocalInstant(D0 + BUCKET_DAYS + 1, 0), Al)>>,
            <<LineItem("Bagel", "Large", QtyInt(2))>>),
      Order(4, "OPEN", <<Pickup(TsBad, Al)>>,
            <<LineItem("Coffee", "Small", QtyInt(1))>>)>>

\* upstream result sets: chains of at most MaxPages pages of at most MaxPageLen
\* orders, no order listed twice
PageChains ==
    {c \in SeqsUpTo(SeqsUpTo(Range(Catalogue), MaxPageLen), MaxPages) :
        c # <<>> /\ Injective(Concat(c))}

\* the cursor upstream returns with page i: that of page i + 1, none on the last
page_cursor(i) == IF i < Len(pages) THEN <<i + 1>> ELSE <<>>

\* the page upstream serves for a request carrying cursor c
search_orders(c) ==
    LET i == IF c = <<>> THEN 1 ELSE c[1] IN
    [orders |-> pages[i], cursor |-> page_cursor(i)]

\* faulty variant: the client-side filter left out
all_page_orders(orders) == orders

IsNotDraft(o) == o.state # "DRAFT"
non_draft_orders(orders) == SelectSeq(orders, IsNotDraft)

upcoming_days(days, today) == [i \in 1..days |-> today + (i - 1)]

CacheValid == cache # <<>> /\ now - cache[1].stamp < TTL

\* orders_by_day.get(day, [])
bucket_get(by_day, day) == IF day \in DOMAIN by_day THEN by_day[day] ELSE <<>>

Init ==
    /\ now = StartNow
    /\ pages \in PageChains
    /\ pc = "idle"
    /\ cursor = <<>>
    /\ all_orders = <<>>
    /\ requests = <<>>
    /\ search_result = ""
    /\ cache = <<>>
    /\ day_dates = <<>>
    /\ recent_orders = <<>>
    /\ orders_by_day = <<>>
    /\ day_options_empty = <<>>
    /\ selected_date = <<>>
    /\ selected_df = <<>>
    /\ selected_prod = <<>>
    /\ error = ""
    /\ NoCall

Tick ==
    /\ now + TickSeconds <= StartNow + MaxTicks * TickSeconds
    /\ now' = now + TickSeconds
    /\ UNCHANGED <<app_vars, call_vars>>

\* a (re)run of the script starts: lines 268-283
RunStart ==
    /\ pc \in {"idle", "done", "stopped"}
    /\ pc' = "load"
    /\ day_dates' = upcoming_days(SELECTOR_DAYS, local_today_at(now))
    /\ recent_orders' = <<>>
    /\ orders_by_day' = <<>>
    /\ day_options_empty' = <<>>
    /\ selected_date' = <<>>
    /\ selected_df' = <<>>
    /\ selected_prod' = <<>>
    /\ error' = ""
    /\ UNCHANGED <<now, pages, cursor, all_orders, requests, search_result, cache, call_vars>>

\* load_orders_cached answered from the cache
LoadCached ==
    /\ pc = "load"
    /\ CacheValid
    /\ recent_orders' = cache[1].recent_orders
    /\ orders_by_day' = cache[1].orders_by_day
    /\ search_result' = ""
    /\ pc' = "render"
    /\ UNCHANGED <<now, pages, cursor, all_orders, requests, cache, day_dates,
                   day_options_empty, selected_date, selected_df, selected_prod, error,
                   call_vars>>

\* load_orders_cached runs: fetch_recent_pickup_orders is entered
LoadMiss ==
    /\ pc = "load"
    /\ ~CacheValid
    /\ cursor' = <<>>
    /\ all_orders' = <<>>
    /\ requests' = <<>>
    /\ search_result' = ""
    /\ pc' = "fetch"
    /\ UNCHANGED <<now, pages, cache, day_dates, recent_orders, orders_by_day,
                   day_options_empty, selected_date, selected_df, selected_prod, error,
                   call_vars>>

\* one pass of the while loop, the search succeeding
SearchOrdersPage ==
    /\ pc = "fetch"
    /\ LET body == search_orders(cursor) IN
       /\ requests' = Append(requests, cursor)
       /\ search_result' = "ok"
       /\ all_orders' = all_orders \o non_draft_orders(body.orders)
       /\ cursor' = body.cursor
       /\ pc' = IF body.cursor = <<>> THEN "split" ELSE "fetch"
    /\ UNCHANGED <<now, pages, cache, day_dates, recent_orders, orders_by_day,
                   day_options_empty, selected_date, selected_df, selected_prod, error,
                   call_vars>>

\* faulty variant: an upstream error ends the loop and the pages so far are returned
SearchOrdersError_returns_partial ==
    /\ pc = "fetch"
    /\ requests' = Append(requests, cursor)
    /\ search_result' = "error"
    /\ pc' = "split"
    /\ UNCHANGED <<now, pages, cursor, all_orders, cache, day_dates, recent_orders,
                   orders_by_day, day_options_empty, selected_date, selected_df,
                   selected_prod, error, call_vars>>

\* one pass of the while loop, the search failing: RuntimeError leaves
\* fetch_recent_pickup_orders and load_orders_cached, st.error, st.stop
SearchOrdersError ==
    /\ pc = "fetch"
    /\ requests' = Append(requests, cursor)
    /\ search_result' = "error"
    /\ cursor' = <<>>
    /\ all_orders' = <<>>
    /\ error' = "fetch"
    /\ pc' = "stopped"
    /\ UNCHANGED <<now, pages, cache, day_dates, recent_orders, orders_by_day,
                   day_options_empty, selected_date, selected_df, selected_prod,
                   call_vars>>

\* split_orders_by_pickup_date inside load_orders_cached; its return value is
\* cached; an exception is reported by the same handler as a fetch error
Split ==
    /\ pc = "split"
    /\ LET r == split_orders_by_pickup_date(all_orders, BUCKET_DAYS, local_today_at(now)) IN
       IF r.raised
       THEN /\ error' = "fetch"
            /\ pc' = "stopped"
            /\ UNCHANGED <<cache, recent_orders, orders_by_day>>
       ELSE /\ cache' = <<[stamp |-> now, recent_orders |-> all_orders,
                           orders_by_day |-> r.grouped]>>
            /\ recent_orders' = all_orders
            /\ orders_by_day' = r.grouped
            /\ pc' = "render"
            /\ UNCHANGED error
    /\ cursor' = <<>>
    /\ all_orders' = <<>>
    /\ UNCHANGED <<now, pages, requests, search_result, day_dates, day_options_empty,
                   selected_date, selected_df, selected_prod, call_vars>>

\* lines 302-350: the markers of the day options, the selected day (choice 0:
\* nothing selected, the fallback local_today()), its two tables
Render ==
    /\ pc = "render"
    /\ \E choice \in 0..SELECTOR_DAYS :
        LET marks == [i \in DOMAIN day_dates |->
                         orders_to_lineitem_df(bucket_get(orders_by_day, day_dates[i]))]
            date == IF choice = 0 THEN local_today_at(now) ELSE day_dates[choice]
            df == orders_to_lineitem_df(bucket_get(orders_by_day, date))
        IN  IF (\E i \in DOMAIN marks : marks[i].status # "ok") \/ df.status # "ok"
            THEN /\ error' = "crash"
                 /\ pc' = "stopped"
                 /\ UNCHANGED <<day_options_empty, selected_date, selected_df, selected_prod>>
            ELSE /\ day_options_empty' = [i \in DOMAIN marks |-> marks[i].rows = <<>>]
                 /\ selected_date' = <<date>>
                 /\ selected_df' = df.rows
                 /\ selected_prod' = kitchen_production_table(df.rows)
                 /\ pc' = "done"
                 /\ UNCHANGED error
    /\ UNCHANGED <<now, pages, cursor, all_orders, requests, search_result, cache,
                   day_dates, recent_orders, orders_by_day, call_vars>>

Next ==
    \/ Tick
    \/ RunStart
    \/ LoadCached
    \/ LoadMiss
    \/ SearchOrdersPage
    \/ SearchOrdersError
    \/ Split
    \/ Render

Spec == Init /\ [][Next]_vars

----------------------------------------------------------------------------
(* Properties of the fetch and of the script run (Spec) *)

KeepsNonDraft(o) == o.state # "DRAFT"

\* the non-draft orders of the first n pages, in page order
NonDraftOfPages(n) == Concat([i \in 1..n |-> SelectSeq(pages[i], KeepsNonDraft)])

\* C1: the fetch requests the pages of the chain in order, the first request
\* without a cursor and each later one with the cursor the previous page
\* returned, never requests past the page that carries no cursor, and returns
\* the non-draft orders of all the pages in page order.
C1_FetchFollowsCursor ==
    /\ Len(requests) <= Len(pages)
    /\ \A i \in DOMAIN requests :
           requests[i] = IF i = 1 THEN <<>> ELSE page_cursor(i - 1)
    /\ pc = "fetch" =>
           /\ Len(requests) < Len(pages)
           /\ all_orders = NonDraftOfPages(Len(requests))
    /\ pc = "split" =>
           /\ Len(requests) = Len(pages)
           /\ all_orders = NonDraftOfPages(Len(pages))

\* a fetch over two pages, holding a draft and a non-draft order, has returned
C1_Witness ==
    /\ pc = "split"
    /\ Len(pages) = 2
    /\ pages[1] # <<>>
    /\ pages[2] # <<>>
    /\ \E o \in Range(Concat(pages)) : o.state = "DRAFT"
    /\ all_orders # <<>>
    /\ requests = <<<<>>, <<2>>>>

\* C2: from the step in which a search reports an error until the next fetch
\* begins, the run is stopped with nothing loaded or displayed, the cache keeps
\* the entry it had, the next run finds no valid entry; and every fetch begins
\* with no cursor and nothing accumulated.
C2_FetchErrorAbortsRefresh ==
    [][/\ search_result' = "error" =>
              /\ pc' \in {"stopped", "load"}
              /\ cache' = cache
              /\ recent_orders' = <<>>
              /\ orders_by_day' = <<>>
              /\ day_options_empty' = <<>>
              /\ selected_df' = <<>>
              /\ selected_prod' = <<>>
              /\ pc' = "stopped" => error' = "fetch" /\ all_orders' = <<>>
              /\ pc' = "load" => ~CacheValid'
       /\ pc # "fetch" /\ pc' = "fetch" =>
              /\ search_result' = ""
              /\ cursor' = <<>>
              /\ all_orders' = <<>>
              /\ requests' = <<>>
      ]_vars

\* the second page of a fetch failed after a first page with a non-draft order
C2_Witness ==
    /\ search_result = "error"
    /\ pc = "stopped"
    /\ Len(requests) = 2
    /\ \E o \in Range(pages[1]) : o.state # "DRAFT"

\* C4: when a run has rendered, the keys of the buckets it displays are the
\* BUCKET_DAYS dates starting at a today read during that run (at its start,
\* or at the time of display).
C4_BucketsUseThisRunsToday ==
    pc = "done" =>
        \/ DOMAIN orders_by_day = TargetDays(day_dates[1], BUCKET_DAYS)
        \/ DOMAIN orders_by_day = TargetDays(local_today_at(now), BUCKET_DAYS)

\* the loaded orders with line items and a pickup fulfillment on local date d
DueOn(d) ==
    {k \in DOMAIN recent_orders :
        /\ recent_orders[k].state # "DRAFT"
        /\ recent_orders[k].line_items # <<>>
        /\ PickupsOn(recent_orders[k], d) # {}}

\* C10: when a run has rendered, every date of the selector whose marker is
\* 'empty' has no loaded order with line items picked up on it, and the table
\* of the selected date holds a row for every line item of every such order.
C10_SelectorDaysAreBucketed ==
    pc = "done" =>
        \A i \in DOMAIN day_dates :
            /\ day_options_empty[i] => DueOn(day_dates[i]) = {}
            /\ selected_date = <<day_dates[i]>> =>
                   Len(selected_df) >=
                       SumSeq([k \in DOMAIN recent_orders |->
                                  IF k \in DueOn(day_dates[i])
                                  THEN Len(recent_orders[k].line_items) ELSE 0])

====
